---- MODULE Spec2Model ----
(***************************************************************************)
(* Connect-4 over a PeerJS data connection: the AppComponent of            *)
(* src/unnamed/part_000 (the component with connection flags, the join     *)
(* timeout and notifications) and the earlier AppComponent of              *)
(* src/src/app/app.component.ts (same game core, no connection flags).     *)
(*                                                                         *)
(* Handlers are written as operators over one component's fields (the      *)
(* record s) that return the new fields together with the values the       *)
(* handler hands to conn.send and to showNotification; the actions apply   *)
(* them to a peer and to the links.                                        *)
(*                                                                         *)
(* Specifications:                                                         *)
(*   Spec          two part_000 peers from construction: rooms, joins,     *)
(*                 connection events, timers, play, restart                *)
(*   SpecLinked    two part_000 peers with the link open: play, restart,   *)
(*                 deliveries in any order                                 *)
(*   SpecRestart   two linked peers of either file, a bounded number of    *)
(*                 commands, the link may close, fair 'data' events        *)
(*   SpecRelink    two linked part_000 peers whose link closes and who     *)
(*                 join again                                              *)
(*   SpecLegacy   two peers of the earlier component from construction    *)
(*   SpecComponent one component of either file in a position of a         *)
(*                 scripted game, then any handler                         *)
(*   SpecLine      checkWinner on boards with discs on one line            *)
(***************************************************************************)
EXTENDS Integers, Sequences, FiniteSets, TLC

ROWS == 6
COLS == 7

\* ---- bounds of the model
MaxConns == 2        \* DataConnections created in a run
MaxQueue == 2        \* messages on their way to one end of a link
MaxCmds == 2         \* user commands in a run of the whole system
MaxCol == 1          \* two-peer runs: the users click columns 0 .. MaxCol
MaxLinkedDiscs == 3  \* discs a linked peer's board holds when it plays
MaxFree == 1         \* handler runs of the single component after its start
MaxLegacyCmds == 3   \* user commands in a run of the earlier component
MaxReach == 3        \* line boards: cells up to this far from the centre are set
MaxLinkedCmds == 2   \* user commands of two linked peers before the users stop
MaxRelinkCmds == 2   \* user commands of two linked peers whose link is replaced

Rows == 0 .. (ROWS - 1)
Cols == 0 .. (COLS - 1)
Colors == {"red", "yellow"}
Null == "null"
Peers == {1, 2}
NoConn == 0
Other(p) == 3 - p

VARIABLES
  impl,    \* which source file the components are built from
  peer,    \* peer[p]: the fields of peer p's AppComponent
  conns,   \* the DataConnections created so far, conns[id]
  ev,      \* the last handler that ran: its inputs and what it returned/sent
  steps    \* user commands so far

vars == <<impl, peer, conns, ev, steps>>

Impls == {"part_000", "app.component"}

\* ------------------------------------------------------------------ board

EmptyBoard == [r \in Rows |-> [c \in Cols |-> Null]]

InBounds(r, c) == r >= 0 /\ r < ROWS /\ c >= 0 /\ c < COLS

\* One of checkWinner's two inner loops: i runs from 1 while i < 4 and stops
\* at the first cell that is off the board or not of this colour.
RECURSIVE CountDir(_, _, _, _, _, _, _)
CountDir(b, r, c, dr, dc, color, i) ==
  IF i < 4 /\ InBounds(r + dr * i, c + dc * i) /\ b[r + dr * i][c + dc * i] = color
  THEN 1 + CountDir(b, r, c, dr, dc, color, i + 1)
  ELSE 0

directions == {<<0, 1>>, <<1, 0>>, <<1, 1>>, <<1, -1>>}

\* fault: the second inner loop (r - dr * i, c - dc * i) is missing
checkWinnerOneWay(b, r, c, color) ==
  \E d \in directions : 1 + CountDir(b, r, c, d[1], d[2], color, 1) >= 4

\* checkWinner of part_000
checkWinner(b, r, c, color) ==
  \E d \in directions :
    1 + CountDir(b, r, c, d[1], d[2], color, 1)
      + CountDir(b, r, c, -d[1], -d[2], color, 1) >= 4

\* checkWinner of app.component.ts (the same loops)
checkWinnerLegacy(b, r, c, color) ==
  \E d \in directions :
    1 + CountDir(b, r, c, d[1], d[2], color, 1)
      + CountDir(b, r, c, -d[1], -d[2], color, 1) >= 4

checkWinnerOf(i, b, r, c, color) ==
  IF i = "part_000" THEN checkWinner(b, r, c, color) ELSE checkWinnerLegacy(b, r, c, color)

\* fault: some() in place of every()
checkDrawAny(b) == \E c \in Cols : b[0][c] # Null

checkDraw(b) == \A c \in Cols : b[0][c] # Null

\* fault: the loop runs from row 0 downwards
LandingRowTop(b, col) ==
  IF \E r \in Rows : b[r][col] = Null
  THEN CHOOSE r \in Rows : b[r][col] = Null /\ \A q \in Rows : b[q][col] = Null => q >= r
  ELSE -1

\* fault: the loop runs to r >= -1 and row 0 is taken when none is empty
LandingRowClamp(b, col) ==
  IF \E r \in Rows : b[r][col] = Null
  THEN CHOOSE r \in Rows : b[r][col] = Null /\ \A q \in Rows : b[q][col] = Null => q <= r
  ELSE 0

\* The row dropDisc's loop stops at: the largest r (scanning from ROWS - 1
\* down to 0) whose cell in col is empty; -1 when the loop runs out.
LandingRow(b, col) ==
  IF \E r \in Rows : b[r][col] = Null
  THEN CHOOSE r \in Rows : b[r][col] = Null /\ \A q \in Rows : b[q][col] = Null => q <= r
  ELSE -1

Opposite(color) == IF color = "red" THEN "yellow" ELSE "red"

\* ------------------------------------------------------- component fields

FreshComponent ==
  [ board |-> EmptyBoard, myColor |-> Null, turn |-> "red",
    gameOver |-> FALSE, winner |-> Null,
    conn |-> NoConn, isConnected |-> FALSE, isConnecting |-> FALSE,
    connectionError |-> "" ]

\* board, turn, gameOver, winner of a component
Game(s) == [board |-> s.board, turn |-> s.turn, gameOver |-> s.gameOver, winner |-> s.winner]

\* fault: turn is not reset
resetBoardKeepTurn(s) ==
  [s EXCEPT !.board = EmptyBoard, !.gameOver = FALSE, !.winner = Null]

resetBoard(s) ==
  [s EXCEPT !.board = EmptyBoard, !.gameOver = FALSE, !.winner = Null, !.turn = "red"]

\* fault: dropDisc without its first line (if (this.gameOver) return false)
dropDiscNoGuard(s, col, color) ==
  LET r == LandingRow(s.board, col) IN
  IF r < 0 THEN [st |-> s, ret |-> FALSE, notes |-> <<>>]
  ELSE
    LET b == [s.board EXCEPT ![r] = [s.board[r] EXCEPT ![col] = color]] IN
    IF checkWinner(b, r, col, color)
    THEN [st |-> [s EXCEPT !.board = b, !.gameOver = TRUE, !.winner = color],
          ret |-> TRUE,
          notes |-> <<IF color = s.myColor THEN "you-won" ELSE "you-lost">>]
    ELSE IF checkDraw(b)
    THEN [st |-> [s EXCEPT !.board = b, !.gameOver = TRUE],
          ret |-> TRUE, notes |-> <<"draw">>]
    ELSE [st |-> [s EXCEPT !.board = b, !.turn = Opposite(color)],
          ret |-> TRUE, notes |-> <<>>]

\* fault: dropDisc testing checkDraw() before checkWinner()
dropDiscDrawFirst(s, col, color) ==
  IF s.gameOver THEN [st |-> s, ret |-> FALSE, notes |-> <<>>]
  ELSE
    LET r == LandingRow(s.board, col) IN
    IF r < 0 THEN [st |-> s, ret |-> FALSE, notes |-> <<>>]
    ELSE
      LET b == [s.board EXCEPT ![r] = [s.board[r] EXCEPT ![col] = color]] IN
      IF checkDraw(b)
      THEN [st |-> [s EXCEPT !.board = b, !.gameOver = TRUE],
            ret |-> TRUE, notes |-> <<"draw">>]
      ELSE IF checkWinner(b, r, col, color)
      THEN [st |-> [s EXCEPT !.board = b, !.gameOver = TRUE, !.winner = color],
            ret |-> TRUE,
            notes |-> <<IF color = s.myColor THEN "you-won" ELSE "you-lost">>]
      ELSE [st |-> [s EXCEPT !.board = b, !.turn = Opposite(color)],
            ret |-> TRUE, notes |-> <<>>]

\* dropDisc of part_000: [st, ret, notes], notes being the notifications of
\* triggerVictory and of the draw branch
dropDisc(s, col, color) ==
  IF s.gameOver THEN [st |-> s, ret |-> FALSE, notes |-> <<>>]
  ELSE
    LET r == LandingRow(s.board, col) IN
    IF r < 0 THEN [st |-> s, ret |-> FALSE, notes |-> <<>>]
    ELSE
      LET b == [s.board EXCEPT ![r] = [s.board[r] EXCEPT ![col] = color]] IN
      IF checkWinner(b, r, col, color)
      THEN [st |-> [s EXCEPT !.board = b, !.gameOver = TRUE, !.winner = color],
            ret |-> TRUE,
            notes |-> <<IF color = s.myColor THEN "you-won" ELSE "you-lost">>]
      ELSE IF checkDraw(b)
      THEN [st |-> [s EXCEPT !.board = b, !.gameOver = TRUE],
            ret |-> TRUE, notes |-> <<"draw">>]
      ELSE [st |-> [s EXCEPT !.board = b, !.turn = Opposite(color)],
            ret |-> TRUE, notes |-> <<>>]

\* dropDisc of app.component.ts: no draw branch, no notifications
dropDiscLegacy(s, col, color) ==
  IF s.gameOver THEN [st |-> s, ret |-> FALSE, notes |-> <<>>]
  ELSE
    LET r == LandingRow(s.board, col) IN
    IF r < 0 THEN [st |-> s, ret |-> FALSE, notes |-> <<>>]
    ELSE
      LET b == [s.board EXCEPT ![r] = [s.board[r] EXCEPT ![col] = color]] IN
      IF checkWinnerLegacy(b, r, col, color)
      THEN [st |-> [s EXCEPT !.board = b, !.gameOver = TRUE, !.winner = color],
            ret |-> TRUE, notes |-> <<>>]
      ELSE [st |-> [s EXCEPT !.board = b, !.turn = Opposite(color)],
            ret |-> TRUE, notes |-> <<>>]

dropDiscOf(i, s, col, color) ==
  IF i = "part_000" THEN dropDisc(s, col, color) ELSE dropDiscLegacy(s, col, color)

\* ---------------------------------------------------------------- messages

MoveMsg(col, color) == [type |-> "move", col |-> col, color |-> color]
RestartMsg == [type |-> "restart", col |-> -1, color |-> Null]
WelcomeMsg == [type |-> "welcome", col |-> -1, color |-> Null]
Msgs == {MoveMsg(c, k) : c \in Cols, k \in Colors} \cup {RestartMsg, WelcomeMsg}

\* ------------------------------------------------ handlers of part_000
\* Each returns [st, ret, out, notes]: the fields afterwards, whether a disc
\* was placed, the values handed to this.conn.send (none when conn is null:
\* this.conn?.send), and the notifications pushed.

play(s, col) ==
  IF s.gameOver \/ s.turn # s.myColor
  THEN [st |-> s, ret |-> FALSE, out |-> <<>>, notes |-> <<>>]
  ELSE IF ~s.isConnected
  THEN [st |-> s, ret |-> FALSE, out |-> <<>>, notes |-> <<"wait-for-opponent">>]
  ELSE
    LET d == dropDisc(s, col, s.myColor) IN
    [st |-> d.st, ret |-> d.ret,
     out |-> IF d.ret /\ s.conn # NoConn THEN <<MoveMsg(col, s.myColor)>> ELSE <<>>,
     notes |-> d.notes]

restart(s) ==
  [st |-> resetBoard(s), ret |-> FALSE,
   out |-> IF s.conn # NoConn THEN <<RestartMsg>> ELSE <<>>,
   notes |-> <<"new-game">>]

\* fault: a 'data' callback that answers a restart message with a restart
\* message of its own
onDataEcho(s, data) ==
  IF data.type = "move"
  THEN LET d == dropDisc(s, data.col, data.color) IN
       [st |-> d.st, ret |-> d.ret, out |-> <<>>, notes |-> d.notes]
  ELSE IF data.type = "restart"
  THEN [st |-> resetBoard(s), ret |-> FALSE,
        out |-> IF s.conn # NoConn THEN <<RestartMsg>> ELSE <<>>,
        notes |-> <<"opponent-again">>]
  ELSE IF data.type = "welcome"
  THEN [st |-> s, ret |-> FALSE, out |-> <<>>, notes |-> <<"connected-to-opponent">>]
  ELSE [st |-> s, ret |-> FALSE, out |-> <<>>, notes |-> <<>>]

\* fault: a 'data' callback that applies a move only when its colour is the
\* colour to move
onDataTurnGated(s, data) ==
  IF data.type = "move"
  THEN IF data.color # s.turn
       THEN [st |-> s, ret |-> FALSE, out |-> <<>>, notes |-> <<>>]
       ELSE LET d == dropDisc(s, data.col, data.color) IN
            [st |-> d.st, ret |-> d.ret, out |-> <<>>, notes |-> d.notes]
  ELSE IF data.type = "restart"
  THEN [st |-> resetBoard(s), ret |-> FALSE, out |-> <<>>, notes |-> <<"opponent-again">>]
  ELSE IF data.type = "welcome"
  THEN [st |-> s, ret |-> FALSE, out |-> <<>>, notes |-> <<"connected-to-opponent">>]
  ELSE [st |-> s, ret |-> FALSE, out |-> <<>>, notes |-> <<>>]

\* the 'data' callback registered by listen()
onData(s, data) ==
  IF data.type = "move"
  THEN LET d == dropDisc(s, data.col, data.color) IN
       [st |-> d.st, ret |-> d.ret, out |-> <<>>, notes |-> d.notes]
  ELSE IF data.type = "restart"
  THEN [st |-> resetBoard(s), ret |-> FALSE, out |-> <<>>, notes |-> <<"opponent-again">>]
  ELSE IF data.type = "welcome"
  THEN [st |-> s, ret |-> FALSE, out |-> <<>>, notes |-> <<"connected-to-opponent">>]
  ELSE [st |-> s, ret |-> FALSE, out |-> <<>>, notes |-> <<>>]

createRoom(s) ==
  [st |-> [s EXCEPT !.myColor = "red"], ret |-> FALSE, out |-> <<>>,
   notes |-> <<"room-created">>]

\* --------------------------------------- handlers of app.component.ts

playLegacy(s, col) ==
  IF s.gameOver \/ s.turn # s.myColor
  THEN [st |-> s, ret |-> FALSE, out |-> <<>>, notes |-> <<>>]
  ELSE
    LET d == dropDiscLegacy(s, col, s.myColor) IN
    [st |-> d.st, ret |-> d.ret,
     out |-> IF d.ret /\ s.conn # NoConn THEN <<MoveMsg(col, s.myColor)>> ELSE <<>>,
     notes |-> <<>>]

restartLegacy(s) ==
  [st |-> resetBoard(s), ret |-> FALSE,
   out |-> IF s.conn # NoConn THEN <<RestartMsg>> ELSE <<>>,
   notes |-> <<>>]

onDataLegacy(s, data) ==
  IF data.type = "move"
  THEN LET d == dropDiscLegacy(s, data.col, data.color) IN
       [st |-> d.st, ret |-> d.ret, out |-> <<>>, notes |-> <<>>]
  ELSE IF data.type = "restart"
  THEN [st |-> resetBoard(s), ret |-> FALSE, out |-> <<>>, notes |-> <<>>]
  ELSE [st |-> s, ret |-> FALSE, out |-> <<>>, notes |-> <<>>]

createRoomLegacy(s) ==
  [st |-> [s EXCEPT !.myColor = "red"], ret |-> FALSE, out |-> <<>>, notes |-> <<>>]

createRoomOf(i, s) == IF i = "part_000" THEN createRoom(s) ELSE createRoomLegacy(s)
playOf(i, s, col) == IF i = "part_000" THEN play(s, col) ELSE playLegacy(s, col)
restartOf(i, s) == IF i = "part_000" THEN restart(s) ELSE restartLegacy(s)
onDataOf(i, s, data) == IF i = "part_000" THEN onData(s, data) ELSE onDataLegacy(s, data)

\* ------------------------------------------------------------ connections
\* A DataConnection between its two ends, from (the peer that called
\* peer.connect) and to (the peer whose Peer object emits 'connection').
\* Per end p: open[p] is PeerJS's conn.open; q[p] the messages on their way
\* to p; listeners[p] the 'data' callbacks listen() has registered there;
\* setup[p] how often setupConnectionHandlers was applied to this end (its
\* 'close' and 'error' callbacks); openH[p] how many of its 'open' callbacks
\* were registered before the end opened (a callback registered later never
\* runs). timer is joinRoom's setTimeout ("pending" until it fires or is
\* cleared), welcome whether the 'connection' handler's setTimeout is pending.
\* before records myColor and the game of the joining peer as joinRoom found
\* them (history only; no handler reads it).

NewConn(p, tm) ==
  [ from |-> p, to |-> Other(p), accepted |-> FALSE, alive |-> TRUE,
    open |-> [x \in Peers |-> FALSE], closedEv |-> [x \in Peers |-> FALSE],
    q |-> [x \in Peers |-> <<>>],
    listeners |-> [x \in Peers |-> 0], setup |-> [x \in Peers |-> 0],
    openH |-> [x \in Peers |-> 0],
    timer |-> tm, welcome |-> FALSE,
    before |-> [myColor |-> peer[p].myColor, game |-> Game(peer[p])] ]

ConnIds == 1 .. Len(conns)

setupConnectionHandlers(cs, p, t) ==
  [cs EXCEPT ![t].setup[p] = @ + 1,
             ![t].openH[p] = IF cs[t].open[p] THEN @ ELSE @ + 1]

\* k calls of listen() by peer p whose conn field is c
listen(cs, p, c, k) ==
  IF c = NoConn THEN cs ELSE [cs EXCEPT ![c].listeners[p] = @ + k]

RepeatNote(n, k) == [i \in 1 .. k |-> n]

\* conn.send(m) for each m of out on connection c by peer p. An open end
\* puts the message on the link (it is lost when the link is already dead);
\* an end that is not open drops it and emits 'error' on the connection,
\* which runs joinRoom's 'error' callback on the joiner's end and the
\* callbacks of setupConnectionHandlers.
\* Result: [cs, st, sent, notes].
SendOn(cs, st, p, c, out) ==
  IF c = NoConn \/ out = <<>> THEN [cs |-> cs, st |-> st, sent |-> 0, notes |-> <<>>]
  ELSE IF cs[c].open[p]
  THEN IF cs[c].alive
       THEN [cs |-> [cs EXCEPT ![c].q[Other(p)] = @ \o out], st |-> st,
             sent |-> Len(out), notes |-> <<>>]
       ELSE [cs |-> cs, st |-> st, sent |-> 0, notes |-> <<>>]
  ELSE IF impl = "part_000" /\ cs[c].from = p
  THEN [cs |-> [cs EXCEPT ![c].timer = "off"],
        st |-> [st EXCEPT !.isConnecting = FALSE, !.connectionError = "Failed to connect"],
        sent |-> 0,
        notes |-> <<"failed-to-join">> \o RepeatNote("connection-error", cs[c].setup[p])]
  ELSE [cs |-> cs, st |-> st, sent |-> 0,
        notes |-> RepeatNote("connection-error", cs[c].setup[p])]

\* the 'data' callback run once per registered listener
RECURSIVE ApplyData(_, _, _, _)
ApplyData(i, s, data, k) ==
  IF k = 0 THEN [st |-> s, ret |-> FALSE, out |-> <<>>, notes |-> <<>>]
  ELSE LET a == onDataOf(i, s, data)
           b == ApplyData(i, a.st, data, k - 1)
       IN [st |-> b.st, ret |-> a.ret \/ b.ret, out |-> a.out \o b.out,
           notes |-> a.notes \o b.notes]

DiscCount(b) == Cardinality({rc \in Rows \X Cols : b[rc[1]][rc[2]] # Null})

\* room left on the link a send of peer p would use
QueueRoom(p) ==
  LET c == peer[p].conn IN
  IF c = NoConn THEN TRUE ELSE Len(conns[c].q[Other(p)]) < MaxQueue

\* The record of a handler run: which handler, on which peer and connection,
\* its arguments (col, color), whether a disc was placed (ret), how many
\* messages it put on a link (sent), the notifications it pushed, and
\* turn/gameOver/winner of the peer as the handler found them (pre).
\* op is "play", "restart", ... for a command and DataOp(message) for a
\* 'data' callback; row is set only for a call of checkWinner(r, c, color).
Event(op, p, c, col, color, ret, sent, notes) ==
  [op |-> op, p |-> p, c |-> c, row |-> -1, col |-> col, color |-> color,
   ret |-> ret, sent |-> sent, notes |-> notes,
   pre |-> IF p \in Peers
           THEN [turn |-> peer[p].turn, gameOver |-> peer[p].gameOver,
                 winner |-> peer[p].winner]
           ELSE [turn |-> "red", gameOver |-> FALSE, winner |-> Null]]

DataOp(m) ==
  IF m.type = "move" THEN "data-move"
  ELSE IF m.type = "restart" THEN "data-restart"
  ELSE "data-welcome"

NoEvent == Event("init", 0, 0, -1, Null, FALSE, 0, <<>>)

\* ------------------------------------------------- actions of part_000

\* createRoom()
CreateRoom(p) ==
  LET r == createRoomOf(impl, peer[p]) IN
  /\ peer' = [peer EXCEPT ![p] = r.st]
  /\ ev' = Event("createRoom", p, 0, -1, Null, FALSE, 0, r.notes)
  /\ UNCHANGED <<impl, conns>>

\* joinRoom(roomId) with a roomId that fails the 4-character test
JoinRoomBadCode(p) ==
  /\ ev' = Event("joinRoomBad", p, 0, -1, Null, FALSE, 0, <<"invalid-room-id">>)
  /\ UNCHANGED <<impl, peer, conns>>

\* joinRoom(roomId) with the other peer's id
JoinRoom(p) ==
  /\ Len(conns) < MaxConns
  /\ LET c == Len(conns) + 1 IN
     /\ conns' = Append(conns, NewConn(p, "pending"))
     /\ peer' = [peer EXCEPT ![p] = [@ EXCEPT !.isConnecting = TRUE,
                                              !.connectionError = "",
                                              !.conn = c,
                                              !.myColor = "yellow"]]
     /\ ev' = Event("joinRoom", p, c, -1, Null, FALSE, 0, <<>>)
  /\ UNCHANGED impl

\* peer.on('connection') at the peer whose room was joined
Connection(c) ==
  /\ ~conns[c].accepted /\ conns[c].alive
  /\ LET h == conns[c].to
         cs1 == [conns EXCEPT ![c].accepted = TRUE, ![c].welcome = TRUE]
     IN
     /\ conns' = setupConnectionHandlers(cs1, h, c)
     /\ peer' = [peer EXCEPT ![h] = [@ EXCEPT !.conn = c, !.myColor = "red",
                                              !.isConnected = TRUE,
                                              !.isConnecting = FALSE]]
     /\ ev' = Event("connection", h, c, -1, Null, FALSE, 0, <<"player-joined">>)
  /\ UNCHANGED impl

\* the setTimeout of the 'connection' handler: this.conn?.send(welcome)
WelcomeTimer(c) ==
  /\ conns[c].welcome
  /\ LET h == conns[c].to
         cs1 == [conns EXCEPT ![c].welcome = FALSE]
         t == SendOn(cs1, peer[h], h, peer[h].conn, <<WelcomeMsg>>)
     IN
     /\ conns' = t.cs
     /\ peer' = [peer EXCEPT ![h] = t.st]
     /\ ev' = Event("welcomeTimer", h, c, -1, Null, FALSE, t.sent, t.notes)
  /\ UNCHANGED impl

\* 'open' on end p of connection c. The joiner's end runs joinRoom's callback
\* first (registered first), then the 'open' callbacks setupConnectionHandlers
\* registered on this end before it opened; setupConnectionHandlers(this.conn!)
\* with conn null throws, which ends the emit.
Open(c, p) ==
  /\ conns[c].accepted /\ conns[c].alive
  /\ ~conns[c].open[p] /\ ~conns[c].closedEv[p]
  /\ LET k == conns[c].openH[p]
         cs1 == [conns EXCEPT ![c].open[p] = TRUE, ![c].openH[p] = 0]
         s1 == [peer[p] EXCEPT !.isConnected = TRUE, !.isConnecting = FALSE]
     IN
     IF conns[c].from = p
     THEN LET cs2 == [cs1 EXCEPT ![c].timer = "off"] IN
          IF s1.conn = NoConn
          THEN /\ conns' = cs2
               /\ peer' = [peer EXCEPT ![p] = s1]
               /\ ev' = Event("open", p, c, -1, Null, FALSE, 0, <<>>)
          ELSE /\ conns' = listen(setupConnectionHandlers(cs2, p, s1.conn), p, s1.conn, 1 + k)
               /\ peer' = [peer EXCEPT ![p] = s1]
               /\ ev' = Event("open", p, c, -1, Null, FALSE, 0, <<"connected-yellow">>)
     ELSE /\ conns' = listen(cs1, p, peer[p].conn, k)
          /\ peer' = [peer EXCEPT ![p] = IF k > 0 THEN s1 ELSE peer[p]]
          /\ ev' = Event("open", p, c, -1, Null, FALSE, 0, <<>>)
  /\ UNCHANGED impl

\* 'close' on end p of connection c: the link is gone for both ends, and the
\* 'close' callbacks registered on this end run.
CloseEvent(c, p) ==
  /\ conns[c].accepted /\ ~conns[c].closedEv[p]
  /\ conns' = [conns EXCEPT ![c].alive = FALSE, ![c].open[p] = FALSE,
                            ![c].closedEv[p] = TRUE,
                            ![c].q = [x \in Peers |-> <<>>]]
  /\ peer' = [peer EXCEPT ![p] =
                IF conns[c].setup[p] > 0
                THEN [@ EXCEPT !.isConnected = FALSE, !.conn = NoConn]
                ELSE @]
  /\ ev' = Event("close", p, c, -1, Null, FALSE, 0,
                 RepeatNote("opponent-disconnected", conns[c].setup[p]))
  /\ UNCHANGED impl

\* joinRoom's setTimeout callback, 10 s after the call that created c
Timeout(c) ==
  /\ conns[c].timer = "pending"
  /\ LET j == conns[c].from IN
     /\ conns' = [conns EXCEPT ![c].timer = "off"]
     /\ IF peer[j].isConnecting
        THEN /\ peer' = [peer EXCEPT ![j] = [@ EXCEPT !.isConnecting = FALSE,
                                                      !.connectionError = "Connection timed out"]]
             /\ ev' = Event("timeout", j, c, -1, Null, FALSE, 0, <<"timed-out">>)
        ELSE /\ peer' = peer
             /\ ev' = Event("timeout", j, c, -1, Null, FALSE, 0, <<>>)
  /\ UNCHANGED impl

\* a 'data' event on end p of connection c: the registered callbacks run, and
\* whatever they hand to this.conn.send goes out as from any other handler
\* (m, a and t are bound over one-element sets so that each is computed once)
Deliver(c, p) ==
  /\ conns[c].alive /\ conns[c].open[p] /\ conns[c].q[p] # <<>>
  /\ \E m \in {Head(conns[c].q[p])} :
       \E a \in {ApplyData(impl, peer[p], m, conns[c].listeners[p])} :
         \E t \in {SendOn([conns EXCEPT ![c].q[p] = Tail(@)], a.st, p, a.st.conn, a.out)} :
           /\ conns' = t.cs
           /\ peer' = [peer EXCEPT ![p] = t.st]
           /\ ev' = Event(DataOp(m), p, c, m.col, m.color, a.ret, t.sent,
                          a.notes \o t.notes)
  /\ UNCHANGED impl

\* play(col)
Play(p, col) ==
  /\ QueueRoom(p)
  /\ LET r == playOf(impl, peer[p], col)
         t == SendOn(conns, r.st, p, peer[p].conn, r.out)
     IN
     /\ conns' = t.cs
     /\ peer' = [peer EXCEPT ![p] = t.st]
     /\ ev' = Event("play", p, peer[p].conn, col, peer[p].myColor, r.ret, t.sent,
                    r.notes \o t.notes)
  /\ UNCHANGED impl

\* restart()
Restart(p) ==
  /\ QueueRoom(p)
  /\ LET r == restartOf(impl, peer[p])
         t == SendOn(conns, r.st, p, peer[p].conn, r.out)
     IN
     /\ conns' = t.cs
     /\ peer' = [peer EXCEPT ![p] = t.st]
     /\ ev' = Event("restart", p, peer[p].conn, -1, Null, FALSE, t.sent,
                    t.notes \o r.notes)
  /\ UNCHANGED impl

Init ==
  /\ impl = "part_000"
  /\ peer = [p \in Peers |-> FreshComponent]
  /\ conns = <<>>
  /\ ev = NoEvent
  /\ steps = 0

\* A user command (a click), at most n of them in a run; an event of the
\* environment (PeerJS, a timer).
Cmd(A, n) == steps < n /\ A /\ steps' = steps + 1
Env(A) == A /\ steps' = steps

Next ==
  \/ \E p \in Peers : Cmd(CreateRoom(p), MaxCmds)
  \/ \E p \in Peers : Cmd(JoinRoomBadCode(p), MaxCmds)
  \/ \E p \in Peers : Cmd(JoinRoom(p), MaxCmds)
  \/ \E c \in ConnIds : Env(Connection(c))
  \/ \E c \in ConnIds : Env(WelcomeTimer(c))
  \/ \E c \in ConnIds, p \in Peers : Env(Open(c, p))
  \/ \E c \in ConnIds, p \in Peers : Env(CloseEvent(c, p))
  \/ \E c \in ConnIds : Env(Timeout(c))
  \/ \E c \in ConnIds, p \in Peers : Env(Deliver(c, p))
  \/ \E p \in Peers, col \in 0 .. MaxCol : Cmd(Play(p, col), MaxCmds)
  \/ \E p \in Peers : Cmd(Restart(p), MaxCmds)

Spec == Init /\ [][Next]_vars

\* ------------------------------------------------ two linked peers
\* The state after peer j joined peer h's room and the link opened at both
\* ends: joinRoom, 'connection', both 'open' events, the welcome sent and
\* received.

LinkedConn(h, i) ==
  [ from |-> Other(h), to |-> h, accepted |-> TRUE, alive |-> TRUE,
    open |-> [x \in Peers |-> TRUE], closedEv |-> [x \in Peers |-> FALSE],
    q |-> [x \in Peers |-> <<>>],
    listeners |-> [x \in Peers |-> 1],
    setup |-> [x \in Peers |-> IF i = "part_000" THEN 1 ELSE 0],
    openH |-> [x \in Peers |-> 0],
    timer |-> "off", welcome |-> FALSE,
    before |-> [myColor |-> Null, game |-> Game(FreshComponent)] ]

LinkedPeers(h, i) ==
  [p \in Peers |->
     [FreshComponent EXCEPT !.myColor = IF p = h THEN "red" ELSE "yellow",
                            !.conn = 1,
                            !.isConnected = (i = "part_000")]]

InitLinked ==
  /\ impl = "part_000"
  /\ peer = LinkedPeers(1, impl)
  /\ conns = <<LinkedConn(1, impl)>>
  /\ ev = NoEvent
  /\ steps = 0

NextLinked ==
  \/ \E p \in Peers, col \in 0 .. MaxCol :
       DiscCount(peer[p].board) < MaxLinkedDiscs /\ Env(Play(p, col))
  \/ \E p \in Peers : Env(Restart(p))
  \/ \E c \in ConnIds, p \in Peers : Env(Deliver(c, p))

SpecLinked == InitLinked /\ [][NextLinked]_vars

\* ------------------------------------- two linked peers, users that stop
\* Two linked peers of either component whose users issue at most
\* MaxLinkedCmds commands (play, restart); the link may close at either end.
\* A message waiting on an open link is eventually handed to the 'data'
\* callbacks: the browser's event loop runs every queued event.

InitRestart ==
  \E i \in Impls :
    /\ impl = i
    /\ peer = LinkedPeers(1, i)
    /\ conns = <<LinkedConn(1, i)>>
    /\ ev = NoEvent
    /\ steps = 0

NextRestart ==
  \/ \E p \in Peers, col \in 0 .. MaxCol : Cmd(Play(p, col), MaxLinkedCmds)
  \/ \E p \in Peers : Cmd(Restart(p), MaxLinkedCmds)
  \/ \E c \in ConnIds, p \in Peers : Env(CloseEvent(c, p))
  \/ \E c \in ConnIds, p \in Peers : Env(Deliver(c, p))

\* weak fairness of each end's 'data' event
FairDeliver == \A p \in Peers : WF_vars(Env(Deliver(1, p)))

SpecRestart == InitRestart /\ [][NextRestart]_vars /\ FairDeliver

\* ------------------------------------- two linked peers, link replaced
\* Two linked peers of part_000 whose link may close and who may join again:
\* at most MaxRelinkCmds commands (joinRoom, play, restart) and every event
\* of the connections.

NextRelink ==
  \/ \E p \in Peers : Cmd(JoinRoom(p), MaxRelinkCmds)
  \/ \E p \in Peers, col \in 0 .. MaxCol : Cmd(Play(p, col), MaxRelinkCmds)
  \/ \E p \in Peers : Cmd(Restart(p), MaxRelinkCmds)
  \/ \E c \in ConnIds : Env(Connection(c))
  \/ \E c \in ConnIds : Env(WelcomeTimer(c))
  \/ \E c \in ConnIds, p \in Peers : Env(Open(c, p))
  \/ \E c \in ConnIds, p \in Peers : Env(CloseEvent(c, p))
  \/ \E c \in ConnIds : Env(Timeout(c))
  \/ \E c \in ConnIds, p \in Peers : Env(Deliver(c, p))

SpecRelink == InitLinked /\ [][NextRelink]_vars

\* --------------------------------------- actions of app.component.ts

\* joinRoom(roomId): no test of roomId, no timer
JoinRoomLegacy(p) ==
  /\ Len(conns) < MaxConns
  /\ LET c == Len(conns) + 1 IN
     /\ conns' = Append(conns, NewConn(p, "off"))
     /\ peer' = [peer EXCEPT ![p] = [@ EXCEPT !.conn = c, !.myColor = "yellow"]]
     /\ ev' = Event("joinRoom", p, c, -1, Null, FALSE, 0, <<>>)
  /\ UNCHANGED impl

\* peer.on('connection'): conn, myColor, listen()
ConnectionLegacy(c) ==
  /\ ~conns[c].accepted /\ conns[c].alive
  /\ LET h == conns[c].to IN
     /\ conns' = listen([conns EXCEPT ![c].accepted = TRUE], h, c, 1)
     /\ peer' = [peer EXCEPT ![h] = [@ EXCEPT !.conn = c, !.myColor = "red"]]
     /\ ev' = Event("connection", h, c, -1, Null, FALSE, 0, <<>>)
  /\ UNCHANGED impl

\* 'open' on end p of c: the joiner's callback calls listen()
OpenLegacy(c, p) ==
  /\ conns[c].accepted /\ conns[c].alive /\ ~conns[c].open[p]
  /\ conns' = listen([conns EXCEPT ![c].open[p] = TRUE], p, peer[p].conn,
                     IF conns[c].from = p THEN 1 ELSE 0)
  /\ ev' = Event("open", p, c, -1, Null, FALSE, 0, <<>>)
  /\ UNCHANGED <<impl, peer>>

InitLegacy ==
  /\ impl = "app.component"
  /\ peer = [p \in Peers |-> FreshComponent]
  /\ conns = <<>>
  /\ ev = NoEvent
  /\ steps = 0

NextLegacy ==
  \/ \E p \in Peers : Cmd(CreateRoom(p), MaxLegacyCmds)
  \/ \E p \in Peers : Cmd(JoinRoomLegacy(p), MaxLegacyCmds)
  \/ \E c \in ConnIds : Env(ConnectionLegacy(c))
  \/ \E c \in ConnIds, p \in Peers : Env(OpenLegacy(c, p))
  \/ \E c \in ConnIds, p \in Peers : Env(Deliver(c, p))
  \/ \E p \in Peers, col \in 0 .. MaxCol : Cmd(Play(p, col), MaxLegacyCmds)
  \/ \E p \in Peers : Cmd(Restart(p), MaxLegacyCmds)

SpecLegacy == InitLegacy /\ [][NextLegacy]_vars

\* ------------------------------------------------ one component
\* One component with the far end of its link left open: it starts in a
\* position of a scripted game (red and yellow alternate, red first, every
\* disc placed by dropDisc) and then runs MaxFree more handlers: a local
\* play, a restart, or the data callback on any message the far end sends.

ScriptDraw ==
  << 0, 0, 1, 0, 1, 0, 0, 1, 0, 1, 3, 1, 1, 2, 2, 3, 2, 3, 2, 2, 5,
     3, 3, 4, 3, 6, 4, 6, 4, 4, 5, 4, 4, 5, 6, 5, 6, 6, 5, 6, 5, 2 >>
ScriptVertical == << 3, 0, 3, 0, 3, 0, 3 >>
ScriptWide == << 0, 0, 1, 1, 2, 2, 4, 4, 5, 5, 6, 6, 3 >>
ScriptDiagDown == << 5, 2, 4, 2, 0, 5, 2, 3, 4, 3, 3, 3, 2 >>
ScriptDiagUp == << 5, 3, 5, 4, 0, 2, 2, 4, 5, 5, 5, 4, 4, 3 >>
Scripts == {ScriptDraw, ScriptVertical, ScriptWide, ScriptDiagDown, ScriptDiagUp}

\* the component after the moves script[j .. k] (dropDisc places nothing
\* once the game is over)
RECURSIVE ReplayFrom(_, _, _, _, _)
ReplayFrom(i, s, script, j, k) ==
  IF j > k \/ s.gameOver THEN s
  ELSE ReplayFrom(i, dropDiscOf(i, s, script[j], IF j % 2 = 1 THEN "red" ELSE "yellow").st,
                  script, j + 1, k)

Replay(i, s, script, k) == ReplayFrom(i, s, script, 1, k)

WithGame(s, g) ==
  [s EXCEPT !.board = g.board, !.turn = g.turn, !.gameOver = g.gameOver,
            !.winner = g.winner]

\* the far end sends m to peer p
RemoteSend(p, m) ==
  LET c == 1 IN
  /\ conns[c].alive /\ conns[c].open[p] /\ conns[c].q[p] = <<>>
  /\ conns' = [conns EXCEPT ![c].q[p] = <<m>>]
  /\ ev' = Event("remoteSend", Other(p), c, m.col, m.color, FALSE, 1, <<>>)
  /\ UNCHANGED <<impl, peer>>

InitComponent ==
  \E i \in Impls, h \in Peers, closed \in BOOLEAN, sc \in Scripts :
    \E k \in 0 .. Len(sc) :
      LET lp == LinkedPeers(h, i)
          lc == LinkedConn(h, i)
          g == Game(Replay(i, lp[1], sc, k))
      IN
      /\ closed => i = "part_000"
      /\ impl = i
      /\ peer = [p \in Peers |->
                   IF p = 1 /\ closed
                   THEN [WithGame(lp[p], g) EXCEPT !.conn = NoConn, !.isConnected = FALSE]
                   ELSE WithGame(lp[p], g)]
      /\ conns = << IF closed
                    THEN [lc EXCEPT !.alive = FALSE, !.open[1] = FALSE,
                                    !.closedEv[1] = TRUE]
                    ELSE lc >>
      /\ ev = NoEvent
      /\ steps = 0

NextComponent ==
  \/ \E col \in Cols : Cmd(Play(1, col), MaxFree)
  \/ Cmd(Restart(1), MaxFree)
  \/ \E m \in Msgs : Cmd(RemoteSend(1, m), MaxFree)
  \/ Env(Deliver(1, 1))

SpecComponent == InitComponent /\ [][NextComponent]_vars

\* ------------------------------------------------ checkWinner on its own
\* checkWinner(r, c, color) called on boards that are empty except for a
\* line through a centre cell: the centre holds color, and each cell of the
\* line up to MaxReach away from it holds color or is empty. The four lines
\* are read independently by checkWinner, so these boards cover every way the
\* cells it reads along one line can be set.

Offsets == ((0 - MaxReach) .. MaxReach) \ {0}

LineBoard(r, c, d, color, pat) ==
  [x \in Rows |-> [y \in Cols |->
     LET k == IF d[1] = 1 THEN x - r ELSE y - c IN
     IF /\ k >= 0 - MaxReach /\ k <= MaxReach
        /\ x = r + d[1] * k /\ y = c + d[2] * k
        /\ (k = 0 \/ pat[k])
     THEN color ELSE Null]]

InitLine ==
  \E i \in Impls, r \in Rows, c \in Cols, d \in directions, color \in Colors :
    \E pat \in [Offsets -> BOOLEAN] :
      /\ impl = i
      /\ peer = [p \in Peers |-> [FreshComponent EXCEPT !.board = LineBoard(r, c, d, color, pat)]]
      /\ conns = <<>>
      /\ ev = NoEvent
      /\ steps = 0

\* this.checkWinner(r, c, color) on peer p's board, (r, c) holding color
CheckWinnerCall(p, r, c) ==
  LET b == peer[p].board IN
  /\ b[r][c] # Null
  /\ ev' = [Event("checkWinner", p, NoConn, c, b[r][c],
                  checkWinnerOf(impl, b, r, c, b[r][c]), 0, <<>>) EXCEPT !.row = r]
  /\ UNCHANGED <<impl, peer, conns>>

NextLine == \E r \in Rows, c \in Cols : Env(CheckWinnerCall(1, r, c))

SpecLine == InitLine /\ [][NextLine]_vars

\* ===================================================== properties

\* both ends of the link between the two peers are open and each peer's conn
\* field is that link
LinkUp ==
  /\ peer[1].conn # NoConn /\ peer[1].conn = peer[2].conn
  /\ LET c == peer[1].conn IN
     conns[c].alive /\ conns[c].open[1] /\ conns[c].open[2]

Quiescent == \A c \in ConnIds, p \in Peers : conns[c].q[p] = <<>>

\* C1 (convergence): whenever the two peers are joined by an open link and no
\* message is in flight on it, they hold the same board, turn, gameOver and
\* winner.
C1_Convergence ==
  (LinkUp /\ Quiescent) => Game(peer[1]) = Game(peer[2])

\* there is no opponent for this component: isConnected is false in part_000;
\* the earlier component has no such field, there it is conn being null
NoOpponent(s) == IF impl = "part_000" THEN ~s.isConnected ELSE s.conn = NoConn

\* C2 (turn enforcement): a play(col) made while turn differs from myColor,
\* while gameOver is true, or while no opponent is connected places no disc,
\* changes nothing of the game and sends nothing.
C2_TurnEnforcement ==
  [][ev'.op = "play" =>
       LET s == peer[ev'.p] IN
       (s.turn # s.myColor \/ s.gameOver \/ NoOpponent(s)) =>
         /\ ~ev'.ret /\ ev'.sent = 0
         /\ Game(peer'[ev'.p]) = Game(s)
         /\ \A c \in ConnIds : conns'[c].q = conns[c].q]_vars

\* C3 (move and broadcast are coupled): a play(col) that places a disc puts
\* exactly one move message on the link to the opponent, and a play(col) that
\* places none puts no message there.
C3_MoveBroadcastCoupled ==
  ev.op = "play" => (ev.ret => ev.sent = 1) /\ (~ev.ret => ev.sent = 0)

\* C10 (colour binding): once a peer's myColor is red or yellow, no step
\* changes it.
C10_ColorImmutable ==
  [][\A p \in Peers : peer[p].myColor # Null => peer'[p].myColor = peer[p].myColor]_vars

\* no empty cell lies below an occupied one
Gravity(b) ==
  \A r \in Rows, c \in Cols :
    b[r][c] # Null => \A q \in Rows : q > r => b[q][c] # Null

\* C4 (gravity): in every reachable state no empty cell lies below an occupied
\* cell of the same column, and every play(col) or received move that places
\* a disc (dropDisc returned true; one data callback registered) puts its
\* colour into the lowest empty cell of col and changes no other cell.
C4_Gravity ==
  /\ [](\A p \in Peers : Gravity(peer[p].board))
  /\ [][(ev'.op \in {"play", "data-move"} /\ ev'.ret /\
          (ev'.op = "data-move" => conns[ev'.c].listeners[ev'.p] = 1)) =>
         LET b == peer[ev'.p].board
             col == ev'.col
         IN \E r \in Rows :
              /\ b[r][col] = Null
              /\ \A q \in Rows : q > r => b[q][col] # Null
              /\ peer'[ev'.p].board = [b EXCEPT ![r] = [b[r] EXCEPT ![col] = ev'.color]]]_vars

\* a disc has just been dropped (by play or by a received move) onto another
\* disc of its column
C4_Witness ==
  /\ ev.op \in {"play", "data-move"} /\ ev.ret
  /\ LET b == peer[ev.p].board IN
     \E r \in Rows :
       /\ r < ROWS - 1
       /\ b[r][ev.col] = ev.color /\ b[r + 1][ev.col] # Null
       /\ \A q \in Rows : q < r => b[q][ev.col] = Null

ColumnFull(b, col) == \A r \in Rows : b[r][col] # Null

\* C5 (full column): in every reachable state, for a column whose six cells
\* are occupied, dropDisc(col, color) returns false and leaves the component
\* as it is, and play(col) places nothing, changes nothing and hands nothing
\* to conn.send.
C5_FullColumnNoOp ==
  \A p \in Peers, col \in Cols :
    ColumnFull(peer[p].board, col) =>
      /\ \A color \in Colors :
           LET d == dropDiscOf(impl, peer[p], col, color) IN
           ~d.ret /\ d.st = peer[p]
      /\ LET r == playOf(impl, peer[p], col) IN
         ~r.ret /\ r.out = <<>> /\ Game(r.st) = Game(peer[p])

\* the player whose turn it is, connected and with the game running, has just
\* played into a full column: nothing was placed and nothing was sent
C5_Witness ==
  /\ ev.op = "play" /\ ~ev.ret /\ ev.sent = 0
  /\ ColumnFull(peer[ev.p].board, ev.col)
  /\ ~ev.pre.gameOver /\ ev.pre.turn = peer[ev.p].myColor
  /\ ~NoOpponent(peer[ev.p])

\* (r, c) lies on a horizontal, vertical or diagonal line of four cells of
\* the board that all hold color
HasRun(b, r, c, color) ==
  \E d \in directions, k \in 0 .. 3 :
    \A i \in 0 .. 3 :
      /\ InBounds(r + d[1] * (i - k), c + d[2] * (i - k))
      /\ b[r + d[1] * (i - k)][c + d[2] * (i - k)] = color

\* C6 (win detection): on every board and for every occupied cell (r, c),
\* checkWinner(r, c, color of the cell) is true exactly when the cell lies on
\* a horizontal, vertical or diagonal run of at least four discs of that
\* colour.
C6_CheckWinnerIffRun ==
  \A p \in Peers, r \in Rows, c \in Cols :
    LET b == peer[p].board IN
    b[r][c] # Null =>
      (checkWinnerOf(impl, b, r, c, b[r][c]) <=> HasRun(b, r, c, b[r][c]))

\* checkWinner has just returned true for a cell in the middle of a run: the
\* run continues on both sides of the cell
C6_Witness ==
  /\ ev.op = "checkWinner" /\ ev.ret
  /\ LET b == peer[ev.p].board IN
     /\ b[ev.row][ev.col] = ev.color
     /\ \E d \in directions :
          /\ CountDir(b, ev.row, ev.col, d[1], d[2], ev.color, 1) > 0
          /\ CountDir(b, ev.row, ev.col, -d[1], -d[2], ev.color, 1) > 0
          /\ CountDir(b, ev.row, ev.col, d[1], d[2], ev.color, 1)
               + CountDir(b, ev.row, ev.col, -d[1], -d[2], ev.color, 1) = 3

BoardFull(b) == \A r \in Rows, c \in Cols : b[r][c] # Null

\* C7 (draw detection): on every reachable board of part_000, checkDraw() is
\* true exactly when every cell of row 0 is occupied, and that is so exactly
\* when every cell of the board is occupied.
C7_CheckDrawIffFull ==
  impl = "part_000" =>
    \A p \in Peers :
      LET b == peer[p].board IN
      /\ checkDraw(b) <=> (\A c \in Cols : b[0][c] # Null)
      /\ (\A c \in Cols : b[0][c] # Null) <=> BoardFull(b)

\* a drop has just filled the last cell without winning: a draw
C7_Witness ==
  /\ impl = "part_000"
  /\ ev.op \in {"play", "data-move"} /\ ev.ret
  /\ checkDraw(peer[ev.p].board) /\ BoardFull(peer[ev.p].board)
  /\ peer[ev.p].gameOver /\ peer[ev.p].winner = Null

FreshGame == [board |-> EmptyBoard, turn |-> "red", gameOver |-> FALSE, winner |-> Null]

\* C8 (restart): a restart() leaves an empty board, turn red, gameOver false
\* and winner null, with myColor, conn and isConnected as they were; a second
\* restart() leaves the component as the first did; and the data callback on
\* a restart message leaves the same board, turn, gameOver and winner as a
\* restart().
C8_Restart ==
  /\ [](\A p \in Peers :
          LET once == restartOf(impl, peer[p]).st
              twice == restartOf(impl, once).st
              got == onDataOf(impl, peer[p], RestartMsg).st
          IN /\ Game(once) = FreshGame
             /\ twice = once
             /\ Game(got) = Game(once))
  /\ [][ev'.op \in {"restart", "data-restart"} =>
          LET p == ev'.p IN
          /\ Game(peer'[p]) = FreshGame
          /\ peer'[p].myColor = peer[p].myColor
          /\ peer'[p].conn = peer[p].conn
          /\ peer'[p].isConnected = peer[p].isConnected]_vars

\* restart() has just run on a game that was won, with yellow to move
C8_Witness ==
  /\ ev.op = "restart"
  /\ ev.pre.gameOver /\ ev.pre.winner = "yellow" /\ ev.pre.turn = "yellow"
  /\ Game(peer[ev.p]) = FreshGame

\* C9 (terminal states absorb): once a peer's gameOver is true, the only steps
\* that change its board, turn, gameOver or winner are its restart() and its
\* data callback on a restart message.
C9_TerminalAbsorbing ==
  [][\A p \in Peers :
       (peer[p].gameOver /\ Game(peer'[p]) # Game(peer[p])) =>
         (ev'.p = p /\ ev'.op \in {"restart", "data-restart"})]_vars

\* a move for a column with room has just arrived after the game was over,
\* and was not placed
C9_Witness ==
  /\ ev.op = "data-move" /\ ev.pre.gameOver /\ ~ev.ret
  /\ peer[ev.p].gameOver
  /\ ~ColumnFull(peer[ev.p].board, ev.col)

\* C11 (opposite colours on a link): whenever a connection is open at both
\* ends and is the one stored in conn by both peers, the peer whose room was
\* joined has myColor red and the peer that joined has myColor yellow.
C11_OppositeColours ==
  \A c \in ConnIds :
    (/\ conns[c].alive /\ conns[c].open[1] /\ conns[c].open[2]
     /\ peer[1].conn = c /\ peer[2].conn = c) =>
      (peer[conns[c].to].myColor = "red" /\ peer[conns[c].from].myColor = "yellow")

\* C13 (connect-timeout correspondence): the timer of a joinRoom call reports
\* a timeout (isConnecting cleared, connectionError set, notification) only
\* for the connection that call created, which is still the peer's conn and
\* has not had its 'open' event.
C13_TimeoutOwnAttempt ==
  [][(ev'.op = "timeout" /\ ev'.notes # <<>>) =>
       (peer[ev'.p].conn = ev'.c /\ ~conns[ev'.c].open[ev'.p])]_vars

\* C19 (no stuck game): whenever the two peers are joined by an open link, no
\* message is in flight and gameOver is false on both, exactly one of them
\* has turn = myColor.
C19_ExactlyOneMayMove ==
  (LinkUp /\ Quiescent /\ ~peer[1].gameOver /\ ~peer[2].gameOver) =>
    ((peer[1].turn = peer[1].myColor) # (peer[2].turn = peer[2].myColor))

\* C20 (link handlers act on the current link): isConnected is never true
\* while conn is null, and the 'close' event of a connection that is not the
\* one stored in conn leaves conn and isConnected as they are.
C20_CurrentLinkOnly ==
  /\ [](\A p \in Peers : peer[p].isConnected => peer[p].conn # NoConn)
  /\ [][(ev'.op = "close" /\ peer[ev'.p].conn # ev'.c) =>
         (/\ peer'[ev'.p].conn = peer[ev'.p].conn
          /\ peer'[ev'.p].isConnected = peer[ev'.p].isConnected)]_vars

\* C12 (join timeout): when the timer of a joinRoom call fires and the
\* connection that call created has had no 'open' event at the joiner,
\* isConnecting is false, connectionError is set, a notification has been
\* added, and myColor, turn, gameOver, winner and the board of the joiner are
\* what they were just before that joinRoom call.
C12_JoinTimeout ==
  [][(ev'.op = "timeout" /\ ~conns[ev'.c].open[ev'.p]) =>
       LET s2 == peer'[ev'.p]
           was == conns[ev'.c].before
       IN /\ ~s2.isConnecting
          /\ s2.connectionError # ""
          /\ ev'.notes # <<>>
          /\ s2.myColor = was.myColor
          /\ Game(s2) = was.game]_vars

\* the connection stored in conn by peer p is open at p and the link is up
CanSend(p) ==
  /\ peer[p].conn # NoConn
  /\ conns[peer[p].conn].open[p] /\ conns[peer[p].conn].alive

\* C14 as stated (restart propagation without ping-pong): every restart()
\* puts exactly one restart message on the link, no 'data' callback puts any
\* message on a link, and once the users have stopped the links eventually
\* are and stay empty.
C14_RestartNoPingPong ==
  /\ [][ev'.op = "restart" => ev'.sent = 1]_vars
  /\ [][ev'.op \in {"data-move", "data-restart", "data-welcome"} => ev'.sent = 0]_vars
  /\ <>[]Quiescent

\* C14 amended: a restart() puts exactly one restart message on the link when
\* the caller's conn is set, open and its link up, and none otherwise; no
\* 'data' callback puts any message on a link or changes any queue but by
\* taking its own message off; and once the users have stopped the links
\* eventually are and stay empty.
C14_RestartNoPingPongLinked ==
  /\ [][ev'.op = "restart" =>
         (/\ ev'.sent = (IF CanSend(ev'.p) THEN 1 ELSE 0)
          /\ (CanSend(ev'.p) =>
                conns'[ev'.c].q[Other(ev'.p)] =
                  Append(conns[ev'.c].q[Other(ev'.p)], RestartMsg)))]_vars
  /\ [][ev'.op \in {"data-move", "data-restart", "data-welcome"} =>
         (/\ ev'.sent = 0
          /\ conns'[ev'.c].q[ev'.p] = Tail(conns[ev'.c].q[ev'.p])
          /\ conns'[ev'.c].q[Other(ev'.p)] = conns[ev'.c].q[Other(ev'.p)])]_vars
  /\ <>[]Quiescent

\* a restart message has just been handled, the game is fresh, and nothing is
\* on its way in either direction: no answer was sent
C14_Witness ==
  /\ ev.op = "data-restart" /\ ev.sent = 0
  /\ Quiescent /\ LinkUp
  /\ Game(peer[ev.p]).turn = "red" /\ DiscCount(peer[ev.p].board) = 0
  /\ DiscCount(peer[Other(ev.p)].board) = 0

\* C15 (rejected local moves are reported): a play(col) of part_000 made out
\* of turn, after the game has ended or into a full column adds a
\* notification and changes nothing else of the component.
C15_RejectedMoveReported ==
  [][(impl = "part_000" /\ ev'.op = "play" /\
       (peer[ev'.p].gameOver \/ peer[ev'.p].turn # peer[ev'.p].myColor
          \/ ColumnFull(peer[ev'.p].board, ev'.col))) =>
       (ev'.notes # <<>> /\ ~ev'.ret /\ ev'.sent = 0 /\ peer'[ev'.p] = peer[ev'.p])]_vars

\* the cell of column col that is empty in b and occupied in b2
LandedRow(b, b2, col) == CHOOSE r \in Rows : b[r][col] = Null /\ b2[r][col] # Null

\* the 'close' callback of the first link has run at peer p
LinkClosed(p) == conns[1].closedEv[p] /\ conns[1].setup[p] > 0

\* a later connection has had its 'open' event at peer p (it is open there,
\* or has been closed there since)
NewLinkOpened(p) ==
  \E c \in ConnIds : c # 1 /\ (conns[c].open[p] \/ conns[c].closedEv[p])

\* C16 (a closed link ends play, not the game): a 'close' event leaves board,
\* turn, gameOver and winner as they are, and a play(col) made after the
\* 'close' callback of the link has run, with no later connection opened at
\* that peer, places no disc and sends no message.
C16_ClosedLinkEndsPlay ==
  /\ [][ev'.op = "close" => Game(peer'[ev'.p]) = Game(peer[ev'.p])]_vars
  /\ [][(ev'.op = "play" /\ LinkClosed(ev'.p) /\ ~NewLinkOpened(ev'.p)) =>
         (~ev'.ret /\ ev'.sent = 0 /\ Game(peer'[ev'.p]) = Game(peer[ev'.p]))]_vars

\* C17 (remote moves are not gated by turn): the data callback on a move
\* message {col, color}, with the game not over and column col not full,
\* places a disc of colour color in column col whatever turn and myColor are,
\* and if the game is not over afterwards, turn is the opposite of color.
C17_RemoteMoveUngated ==
  [][(ev'.op = "data-move" /\ conns[ev'.c].listeners[ev'.p] = 1 /\
       ~peer[ev'.p].gameOver /\ ~ColumnFull(peer[ev'.p].board, ev'.col)) =>
       LET b == peer[ev'.p].board
           b2 == peer'[ev'.p].board
       IN /\ ev'.ret
          /\ \E r \in Rows :
               /\ b[r][ev'.col] = Null
               /\ b2 = [b EXCEPT ![r] = [b[r] EXCEPT ![ev'.col] = ev'.color]]
          /\ (~peer'[ev'.p].gameOver => peer'[ev'.p].turn = Opposite(ev'.color))]_vars

\* a received move of the receiver's own colour, which was not the colour to
\* move, has just been placed and the game goes on
C17_Witness ==
  /\ ev.op = "data-move" /\ ev.ret
  /\ ev.color = peer[ev.p].myColor /\ ev.color # ev.pre.turn
  /\ ~peer[ev.p].gameOver /\ peer[ev.p].turn = Opposite(ev.color)

\* C18 (outcome of an accepted drop): after a drop of colour c by part_000
\* that placed a disc, if the landing cell lies on a run of four of c then
\* gameOver is true, winner is c and turn is as before, also when the board
\* is full; otherwise, if the board is full, gameOver is true, winner is as
\* before (null) and turn is as before; otherwise gameOver is false and turn
\* is the other colour.
C18_DropOutcome ==
  [][(impl = "part_000" /\ ev'.op \in {"play", "data-move"} /\ ev'.ret /\
       (ev'.op = "data-move" => conns[ev'.c].listeners[ev'.p] = 1)) =>
       LET s == peer[ev'.p]
           s2 == peer'[ev'.p]
           c == ev'.color
           r == LandedRow(s.board, s2.board, ev'.col)
       IN IF HasRun(s2.board, r, ev'.col, c)
          THEN s2.gameOver /\ s2.winner = c /\ s2.turn = s.turn
          ELSE IF BoardFull(s2.board)
          THEN s2.gameOver /\ s2.winner = Null /\ s2.turn = s.turn
          ELSE ~s2.gameOver /\ s2.winner = Null /\ s2.turn = Opposite(c)]_vars

\* a drop has just completed a run of four in the last empty cell of the
\* board: the game is won, not drawn
C18_Witness ==
  /\ impl = "part_000"
  /\ ev.op \in {"play", "data-move"} /\ ev.ret
  /\ BoardFull(peer[ev.p].board)
  /\ peer[ev.p].gameOver /\ peer[ev.p].winner = ev.color
  /\ peer[ev.p].turn = ev.pre.turn

====
